---- MODULE Spec2Model ----
(***************************************************************************)
(* A model of the Web3Eth client of packages/web3-eth/src/index.ts: one    *)
(* public operation per Ethereum JSON-RPC method.  Every operation builds  *)
(* its positional params (converting some inputs with formatInput), hands  *)
(* one descriptor to the request manager (send or subscribe), and in send  *)
(* mode normalizes the result of the response (formatOutput or             *)
(* formatRpcResultArray) before returning it.                              *)
(*                                                                         *)
(* JavaScript values are tagged records [t |-> tag, v |-> payload].  A     *)
(* JavaScript string is the sequence of its characters, so that parsing    *)
(* and formatting numerals is computed and not assumed.                    *)
(***************************************************************************)
EXTENDS Integers, Sequences, FiniteSets, TLC

(***************************************************************************)
(* Bounds of the model.                                                    *)
(***************************************************************************)
\* The longest array of log records the node answers with.
MaxLogs == 2
\* The most hexadecimal digits of a string handed to the converter on its own.
MaxHexDigits == 4

(***************************************************************************)
(* JavaScript values.                                                      *)
(***************************************************************************)
Str(s) == [t |-> "str", v |-> s]
\* A string the program never parses (a method name, a protocol version) is kept whole.
Name(s) == [t |-> "name", v |-> s]
Num(n) == [t |-> "num", v |-> n]
Big(n) == [t |-> "big", v |-> n]
Bool(b) == [t |-> "bool", v |-> b]
Obj(f) == [t |-> "obj", v |-> f]
Arr(s) == [t |-> "arr", v |-> s]
Null == [t |-> "null", v |-> 0]
Undefined == [t |-> "undefined", v |-> 0]

\* The keys of an object and the value of one key (undefined when absent).
Keys(o) == DOMAIN o.v
Get(o, k) == IF o.t = "obj" /\ k \in DOMAIN o.v THEN o.v[k] ELSE Undefined

\* JavaScript's object spread {...a, ...b}: the keys of both, b's values winning.
Spread(a, b) == [k \in (DOMAIN a) \cup (DOMAIN b) |-> IF k \in DOMAIN b THEN b[k] ELSE a[k]]

\* JavaScript's truthiness, as the conditional operator and || read a value.
Truthy(x) ==
    CASE x.t = "undefined" -> FALSE
      [] x.t = "null" -> FALSE
      [] x.t = "bool" -> x.v
      [] x.t = "num" -> x.v # 0
      [] x.t = "big" -> x.v # 0
      [] x.t = "str" -> Len(x.v) > 0
      [] OTHER -> TRUE

(***************************************************************************)
(* The format converter of web3-utils (formatInput, formatOutput,          *)
(* formatRpcResultArray), whose code is in another package.                *)
(***************************************************************************)
LowerDigits == <<"0", "1", "2", "3", "4", "5", "6", "7", "8", "9", "a", "b", "c", "d", "e", "f">>
UpperDigits == <<"0", "1", "2", "3", "4", "5", "6", "7", "8", "9", "A", "B", "C", "D", "E", "F">>

IsDigitOf(c, base) == \E d \in 1..base : LowerDigits[d] = c \/ UpperDigits[d] = c
DigitValue(c) == (CHOOSE d \in 1..16 : LowerDigits[d] = c \/ UpperDigits[d] = c) - 1

\* A hexadecimal numeral: 0x and at least one hexadecimal digit.
IsHexString(s) ==
    /\ Len(s) >= 3
    /\ s[1] = "0"
    /\ s[2] = "x"
    /\ \A i \in 3..Len(s) : IsDigitOf(s[i], 16)

\* A decimal numeral: at least one decimal digit.
IsDecimalString(s) ==
    /\ Len(s) >= 1
    /\ \A i \in 1..Len(s) : IsDigitOf(s[i], 10)

RECURSIVE ParseDigits(_, _)
ParseDigits(s, base) ==
    IF Len(s) = 0 THEN 0
    ELSE ParseDigits(SubSeq(s, 1, Len(s) - 1), base) * base + DigitValue(s[Len(s)])

\* ToDigits writing the digits above 9 in uppercase.
RECURSIVE ToDigitsUpper(_, _)
ToDigitsUpper(n, base) ==
    IF n < base THEN <<UpperDigits[n + 1]>>
    ELSE Append(ToDigitsUpper(n \div base, base), UpperDigits[(n % base) + 1])

RECURSIVE ToDigits(_, _)
ToDigits(n, base) ==
    IF n < base THEN <<LowerDigits[n + 1]>>
    ELSE Append(ToDigits(n \div base, base), LowerDigits[(n % base) + 1])

\* Whether a value is a numeral the converter reads, and the integer it reads.
IsNumeral(x) ==
    CASE x.t = "num" -> x.v >= 0
      [] x.t = "big" -> x.v >= 0
      [] x.t = "str" -> IsHexString(x.v) \/ IsDecimalString(x.v)
      [] OTHER -> FALSE

Magnitude(x) ==
    CASE x.t = "str" /\ IsHexString(x.v) -> ParseDigits(SubSeq(x.v, 3, Len(x.v)), 16)
      [] x.t = "str" -> ParseDigits(x.v, 10)
      [] OTHER -> x.v

\* The safe integer range of a native number, 0 .. 2^53 - 1 = 0x1fffffffffffff, read
\* off the canonical hexadecimal digits: at most 13 of them, or 14 with a leading 1.
SafeHexDigits == 14
IsSafeInteger(n) ==
    LET h == ToDigits(n, 16)
    IN  Len(h) < SafeHexDigits \/ (Len(h) = SafeHexDigits /\ h[1] = "1")

\* The canonical hexadecimal digits of a numeral: lowercase, no leading zero. Those
\* of a hexadecimal string are read off its characters, whatever its length.
RECURSIVE Canonical(_)
Canonical(digits) ==
    IF Len(digits) > 1 /\ digits[1] = "0" THEN Canonical(Tail(digits)) ELSE digits

HexDigits(x) ==
    IF x.t = "str" /\ IsHexString(x.v)
    THEN Canonical([i \in 1..Len(x.v) - 2 |-> LowerDigits[DigitValue(x.v[i + 2]) + 1]])
    ELSE ToDigits(Magnitude(x), 16)

RECURSIVE Zeros(_)
Zeros(k) == IF k <= 0 THEN <<>> ELSE <<"0">> \o Zeros(k - 1)

\* A conversion's outcome: the value, or the message of the ConversionError. The
\* converter is handed the value (and the width) alone, so that is all its message
\* can tell.
Converted(x) == [ok |-> TRUE, val |-> x, msg |-> Undefined]
ConversionError(x) == [ok |-> FALSE, val |-> Undefined, msg |-> Obj([kind |-> Name("ConversionError"), value |-> x])]

\* No byte width.
NoWidth == 0

convert(value, target, width) ==
    IF ~IsNumeral(value) THEN ConversionError(value)
    ELSE LET n == Magnitude(value)
             h == HexDigits(value)
         IN  CASE target = "HexString" /\ width = NoWidth -> Converted(Str(<<"0", "x">> \o h))
               [] target = "HexString" /\ width # NoWidth ->
                    IF Len(h) > 2 * width THEN ConversionError(value)
                    ELSE Converted(Str(<<"0", "x">> \o Zeros(2 * width - Len(h)) \o h))
               [] target = "Number" ->
                    IF IsSafeInteger(n) THEN Converted(Num(n)) ELSE ConversionError(value)
               [] target = "BigInt" -> Converted(Big(n))
               [] target = "DecimalString" -> Converted(Str(ToDigits(n, 10)))
               [] OTHER -> ConversionError(value)

ValidTypesEnum == {"HexString", "Number", "BigInt", "DecimalString"}

formatInput(value, width) == convert(value, "HexString", width)
formatOutput(value, target) == convert(value, target, NoWidth)


\* formatRpcResultArray: null and undefined pass through, an array is normalized
\* element by element, a record has each named field it holds converted, and any
\* other value (the boolean false of eth_syncing) passes through.
RECURSIVE FirstFailing(_, _, _)
FirstFailing(o, fields, target) ==
    IF Len(fields) = 0 THEN Undefined
    ELSE IF Head(fields) \in DOMAIN o /\ ~formatOutput(o[Head(fields)], target).ok
         THEN formatOutput(o[Head(fields)], target).msg
         ELSE FirstFailing(o, Tail(fields), target)

formatRecord(o, fields, target) ==
    LET named == {fields[i] : i \in 1..Len(fields)} \cap DOMAIN o
        bad == FirstFailing(o, fields, target)
    IN  IF bad # Undefined THEN [ok |-> FALSE, val |-> Undefined, msg |-> bad]
        ELSE Converted(Obj([k \in DOMAIN o |->
                 IF k \in named THEN formatOutput(o[k], target).val ELSE o[k]]))

formatElement(x, fields, target) ==
    IF x.t = "obj" THEN formatRecord(x.v, fields, target) ELSE Converted(x)

formatRpcResultArray(result, fields, target) ==
    CASE result.t = "arr" ->
            LET each == [i \in 1..Len(result.v) |-> formatElement(result.v[i], fields, target)]
                failed == {i \in 1..Len(result.v) : ~each[i].ok}
            IN  IF failed # {}
                THEN each[CHOOSE i \in failed : \A j \in failed : i <= j]
                ELSE Converted(Arr([i \in 1..Len(result.v) |-> each[i].val]))
      [] result.t = "obj" -> formatRecord(result.v, fields, target)
      [] OTHER -> Converted(result)

(***************************************************************************)
(* The block tags (the BlockTags enum of ../types).                        *)
(***************************************************************************)
Latest == Str(<<"l", "a", "t", "e", "s", "t">>)
Earliest == Str(<<"e", "a", "r", "l", "i", "e", "s", "t">>)
Pending == Str(<<"p", "e", "n", "d", "i", "n", "g">>)
BlockTags == {Latest, Earliest, Pending}

_isBlockTag(value) == value \in BlockTags

(***************************************************************************)
(* The public operations.  Each is the data of its handler: the method     *)
(* name, how each positional param is built from the arguments, which      *)
(* normalizer the send-mode result goes through, with which field list     *)
(* and which choice of target representation, and the context text of the  *)
(* error it throws.                                                        *)
(***************************************************************************)
Arg(name, type) == [name |-> name, type |-> type]

\* params[i] is argument `arg` as supplied.
Raw(i) == [how |-> "raw", arg |-> i, width |-> NoWidth, fields |-> <<>>]
\* params[i] is formatInput(argument).
Formatted(i) == [how |-> "formatInput", arg |-> i, width |-> NoWidth, fields |-> <<>>]
\* params[i] is formatInput(argument, width).
Padded(i, w) == [how |-> "formatInput", arg |-> i, width |-> w, fields |-> <<>>]
\* params[i] is _isBlockTag(argument) ? argument : formatInput(argument).
TagOrFormatted(i) == [how |-> "tagOrFormatInput", arg |-> i, width |-> NoWidth, fields |-> <<>>]
\* params[i] is {...argument, f: argument.f ? formatInput(argument.f) : undefined, ...}.
Encoded(i, fs) == [how |-> "object", arg |-> i, width |-> NoWidth, fields |-> fs]

getClientVersion ==
    [name |-> "getClientVersion", method |-> "web3_clientVersion",
     args |-> <<>>,
     params |-> <<>>,
     normalize |-> "none",
     fields |-> <<>>,
     returnType |-> "none",
     context |-> "Error getting client version"]

getSha3 ==
    [name |-> "getSha3", method |-> "web3_clientVersion",
     args |-> <<Arg("data", "string")>>,
     params |-> <<Raw(1)>>,
     normalize |-> "none",
     fields |-> <<>>,
     returnType |-> "none",
     context |-> "Error getting sha3 hash"]

getNetworkVersion ==
    [name |-> "getNetworkVersion", method |-> "net_version",
     args |-> <<>>,
     params |-> <<>>,
     normalize |-> "formatOutput",
     fields |-> <<>>,
     returnType |-> "callOptionsOrDefault",
     context |-> "Error getting network version"]

getNetworkListening ==
    [name |-> "getNetworkListening", method |-> "net_listening",
     args |-> <<>>,
     params |-> <<>>,
     normalize |-> "none",
     fields |-> <<>>,
     returnType |-> "none",
     context |-> "Error getting network listening"]

getNetworkPeerCount ==
    [name |-> "getNetworkPeerCount", method |-> "net_peerCount",
     args |-> <<>>,
     params |-> <<>>,
     normalize |-> "formatOutput",
     fields |-> <<>>,
     returnType |-> "callOptionsOrDefault",
     context |-> "Error getting network peer count"]

getProtocolVersion ==
    [name |-> "getProtocolVersion", method |-> "eth_protocolVersion",
     args |-> <<>>,
     params |-> <<>>,
     normalize |-> "formatOutput",
     fields |-> <<>>,
     returnType |-> "callOptionsOrDefault",
     context |-> "Error getting protocol version"]

\* getSyncing with its result handed to formatOutput.
getSyncingScalar ==
    [name |-> "getSyncing", method |-> "eth_syncing",
     args |-> <<>>,
     params |-> <<>>,
     normalize |-> "formatOutput",
     fields |-> <<>>,
     returnType |-> "default",
     context |-> "Error getting syncing status"]

getSyncing ==
    [name |-> "getSyncing", method |-> "eth_syncing",
     args |-> <<>>,
     params |-> <<>>,
     normalize |-> "formatRpcResultArray",
     fields |-> <<"startingBlock", "currentBlock", "highestBlock">>,
     returnType |-> "default",
     context |-> "Error getting syncing status"]

getCoinbase ==
    [name |-> "getCoinbase", method |-> "eth_coinbase",
     args |-> <<>>,
     params |-> <<>>,
     normalize |-> "none",
     fields |-> <<>>,
     returnType |-> "none",
     context |-> "Error getting coinbase address"]

getMining ==
    [name |-> "getMining", method |-> "eth_mining",
     args |-> <<>>,
     params |-> <<>>,
     normalize |-> "none",
     fields |-> <<>>,
     returnType |-> "none",
     context |-> "Error getting mining status"]

getHashRate ==
    [name |-> "getHashRate", method |-> "eth_hashrate",
     args |-> <<>>,
     params |-> <<>>,
     normalize |-> "formatOutput",
     fields |-> <<>>,
     returnType |-> "callOptionsOrDefault",
     context |-> "Error getting hash rate"]

getGasPrice ==
    [name |-> "getGasPrice", method |-> "eth_gasPrice",
     args |-> <<>>,
     params |-> <<>>,
     normalize |-> "formatOutput",
     fields |-> <<>>,
     returnType |-> "callOptionsOrDefault",
     context |-> "Error getting gas price"]

getAccounts ==
    [name |-> "getAccounts", method |-> "eth_accounts",
     args |-> <<>>,
     params |-> <<>>,
     normalize |-> "none",
     fields |-> <<>>,
     returnType |-> "none",
     context |-> "Error getting accounts"]

getBlockNumber ==
    [name |-> "getBlockNumber", method |-> "eth_blockNumber",
     args |-> <<>>,
     params |-> <<>>,
     normalize |-> "formatOutput",
     fields |-> <<>>,
     returnType |-> "callOptionsOrDefault",
     context |-> "Error getting block number"]

getBalance ==
    [name |-> "getBalance", method |-> "net_version",
     args |-> <<Arg("address", "HexString"), Arg("blockIdentifier", "BlockIdentifier")>>,
     params |-> <<Raw(1), TagOrFormatted(2)>>,
     normalize |-> "formatOutput",
     fields |-> <<>>,
     returnType |-> "callOptionsOrDefault",
     context |-> "Error getting balance"]

getStorageAt ==
    [name |-> "getStorageAt", method |-> "eth_getStorageAt",
     args |-> <<Arg("address", "HexString"), Arg("storagePosition", "ValidTypes"), Arg("blockIdentifier", "BlockIdentifier")>>,
     params |-> <<Raw(1), Formatted(2), Formatted(3)>>,
     normalize |-> "formatOutput",
     fields |-> <<>>,
     returnType |-> "callOptionsOrDefault",
     context |-> "Error getting storage value"]

getTransactionCount ==
    [name |-> "getTransactionCount", method |-> "eth_getTransactionCount",
     args |-> <<Arg("address", "HexString"), Arg("blockIdentifier", "BlockIdentifier")>>,
     params |-> <<Raw(1), Formatted(2)>>,
     normalize |-> "formatOutput",
     fields |-> <<>>,
     returnType |-> "callOptionsOrDefault",
     context |-> "Error getting transaction count"]

getBlockTransactionCountByHash ==
    [name |-> "getBlockTransactionCountByHash", method |-> "eth_getBlockTransactionCountByHash",
     args |-> <<Arg("blockHash", "HexString")>>,
     params |-> <<Raw(1)>>,
     normalize |-> "formatOutput",
     fields |-> <<>>,
     returnType |-> "callOptionsOrDefault",
     context |-> "Error getting transaction count for block by hash"]

getBlockTransactionCountByNumber ==
    [name |-> "getBlockTransactionCountByNumber", method |-> "eth_getBlockTransactionCountByNumber",
     args |-> <<Arg("blockIdentifier", "BlockIdentifier")>>,
     params |-> <<Formatted(1)>>,
     normalize |-> "formatOutput",
     fields |-> <<>>,
     returnType |-> "callOptionsOrDefault",
     context |-> "Error getting transaction count for block by number"]

getUncleCountByBlockHash ==
    [name |-> "getUncleCountByBlockHash", method |-> "eth_getUncleCountByBlockHash",
     args |-> <<Arg("blockHash", "HexString")>>,
     params |-> <<Raw(1)>>,
     normalize |-> "formatOutput",
     fields |-> <<>>,
     returnType |-> "callOptionsOrDefault",
     context |-> "Error getting uncle count for block by hash"]

getUncleCountByBlockNumber ==
    [name |-> "getUncleCountByBlockNumber", method |-> "eth_getUncleCountByBlockNumber",
     args |-> <<Arg("blockIdentifier", "BlockIdentifier")>>,
     params |-> <<Formatted(1)>>,
     normalize |-> "formatOutput",
     fields |-> <<>>,
     returnType |-> "callOptionsOrDefault",
     context |-> "Error getting uncle count for block by number"]

\* getCode with its result handed to formatOutput.
getCodeNormalizing ==
    [name |-> "getCode", method |-> "eth_getCode",
     args |-> <<Arg("address", "HexString"), Arg("blockIdentifier", "BlockIdentifier")>>,
     params |-> <<Raw(1), Formatted(2)>>,
     normalize |-> "formatOutput",
     fields |-> <<>>,
     returnType |-> "callOptionsOrDefault",
     context |-> "Error getting code at address"]

getCode ==
    [name |-> "getCode", method |-> "eth_getCode",
     args |-> <<Arg("address", "HexString"), Arg("blockIdentifier", "BlockIdentifier")>>,
     params |-> <<Raw(1), Formatted(2)>>,
     normalize |-> "none",
     fields |-> <<>>,
     returnType |-> "none",
     context |-> "Error getting code at address"]

sign ==
    [name |-> "sign", method |-> "eth_sign",
     args |-> <<Arg("address", "HexString"), Arg("message", "HexString")>>,
     params |-> <<Raw(1), Raw(2)>>,
     normalize |-> "none",
     fields |-> <<>>,
     returnType |-> "none",
     context |-> "Error signing message"]

signTransaction ==
    [name |-> "signTransaction", method |-> "eth_signTransaction",
     args |-> <<Arg("transaction", "EthTransaction")>>,
     params |-> <<Encoded(1, <<"gas", "gasPrice", "value", "nonce">>)>>,
     normalize |-> "none",
     fields |-> <<>>,
     returnType |-> "none",
     context |-> "Error signing transaction"]

sendTransaction ==
    [name |-> "sendTransaction", method |-> "eth_sendTransaction",
     args |-> <<Arg("transaction", "EthTransaction")>>,
     params |-> <<Encoded(1, <<"gas", "gasPrice", "value", "nonce">>)>>,
     normalize |-> "none",
     fields |-> <<>>,
     returnType |-> "none",
     context |-> "Error sending transaction"]

sendRawTransaction ==
    [name |-> "sendRawTransaction", method |-> "eth_sendRawTransaction",
     args |-> <<Arg("rawTransaction", "HexString")>>,
     params |-> <<Raw(1)>>,
     normalize |-> "none",
     fields |-> <<>>,
     returnType |-> "none",
     context |-> "Error sending raw transaction"]

call ==
    [name |-> "call", method |-> "eth_call",
     args |-> <<Arg("transaction", "EthCallTransaction")>>,
     params |-> <<Encoded(1, <<"gas", "gasPrice", "value", "nonce">>)>>,
     normalize |-> "none",
     fields |-> <<>>,
     returnType |-> "none",
     context |-> "Error sending call transaction"]

estimateGas ==
    [name |-> "estimateGas", method |-> "eth_estimateGas",
     args |-> <<Arg("transaction", "EthTransaction")>>,
     params |-> <<Encoded(1, <<"gas", "gasPrice", "value", "nonce">>)>>,
     normalize |-> "formatOutput",
     fields |-> <<>>,
     returnType |-> "callOptionsOrDefault",
     context |-> "Error getting gas estimate"]

getBlockByHash ==
    [name |-> "getBlockByHash", method |-> "eth_getBlockByHash",
     args |-> <<Arg("blockHash", "HexString"), Arg("returnFullTxs", "boolean")>>,
     params |-> <<Raw(1), Raw(2)>>,
     normalize |-> "formatRpcResultArray",
     fields |-> <<"number", "nonce", "difficulty", "totalDifficulty", "size", "gasLimit", "gasUsed", "timestamp">>,
     returnType |-> "callOptionsOrDefault",
     context |-> "Error getting block by hash"]

getBlockByNumber ==
    [name |-> "getBlockByNumber", method |-> "eth_getBlockByNumber",
     args |-> <<Arg("blockIdentifier", "BlockIdentifier"), Arg("returnFullTxs", "boolean")>>,
     params |-> <<Formatted(1), Raw(2)>>,
     normalize |-> "formatRpcResultArray",
     fields |-> <<"number", "nonce", "difficulty", "totalDifficulty", "size", "gasLimit", "gasUsed", "timestamp">>,
     returnType |-> "callOptionsOrDefault",
     context |-> "Error getting block by number"]

getTransactionByHash ==
    [name |-> "getTransactionByHash", method |-> "eth_getTransactionByHash",
     args |-> <<Arg("txHash", "HexString")>>,
     params |-> <<Raw(1)>>,
     normalize |-> "formatRpcResultArray",
     fields |-> <<"blockNumber", "gas", "gasPrice", "nonce", "transactionIndex", "value", "v">>,
     returnType |-> "callOptionsOrDefault",
     context |-> "Error getting transaction by hash"]

getTransactionByBlockHashAndIndex ==
    [name |-> "getTransactionByBlockHashAndIndex", method |-> "eth_getTransactionByBlockHashAndIndex",
     args |-> <<Arg("blockHash", "HexString"), Arg("transactionIndex", "ValidTypes")>>,
     params |-> <<Raw(1), Formatted(2)>>,
     normalize |-> "formatRpcResultArray",
     fields |-> <<"blockNumber", "gas", "gasPrice", "nonce", "transactionIndex", "value", "v">>,
     returnType |-> "callOptionsOrDefault",
     context |-> "Error getting transaction by block hash and index"]

getTransactionByBlockNumberAndIndex ==
    [name |-> "getTransactionByBlockNumberAndIndex", method |-> "eth_getTransactionByBlockNumberAndIndex",
     args |-> <<Arg("blockIdentifier", "BlockIdentifier"), Arg("transactionIndex", "ValidTypes")>>,
     params |-> <<Formatted(1), Formatted(2)>>,
     normalize |-> "formatRpcResultArray",
     fields |-> <<"blockNumber", "gas", "gasPrice", "nonce", "transactionIndex", "value", "v">>,
     returnType |-> "callOptionsOrDefault",
     context |-> "Error getting transaction by block number and index"]

getTransactionReceipt ==
    [name |-> "getTransactionReceipt", method |-> "eth_getTransactionReceipt",
     args |-> <<Arg("txHash", "HexString")>>,
     params |-> <<Raw(1)>>,
     normalize |-> "formatRpcResultArray",
     fields |-> <<"blockNumber", "cumulativeGasUsed", "gasUsed">>,
     returnType |-> "callOptionsOrDefault",
     context |-> "Error getting transaction reciept"]

\* getUncleByBlockHashAndIndex with a decode list that lacks timestamp.
getUncleByBlockHashAndIndexShort ==
    [name |-> "getUncleByBlockHashAndIndex", method |-> "eth_getUncleByBlockHashAndIndex",
     args |-> <<Arg("blockHash", "HexString"), Arg("uncleIndex", "ValidTypes")>>,
     params |-> <<Raw(1), Formatted(2)>>,
     normalize |-> "formatRpcResultArray",
     fields |-> <<"number", "nonce", "difficulty", "totalDifficulty", "size", "gasLimit", "gasUsed">>,
     returnType |-> "callOptionsOrDefault",
     context |-> "Error getting uncle by block hash and index"]

getUncleByBlockHashAndIndex ==
    [name |-> "getUncleByBlockHashAndIndex", method |-> "eth_getUncleByBlockHashAndIndex",
     args |-> <<Arg("blockHash", "HexString"), Arg("uncleIndex", "ValidTypes")>>,
     params |-> <<Raw(1), Formatted(2)>>,
     normalize |-> "formatRpcResultArray",
     fields |-> <<"number", "nonce", "difficulty", "totalDifficulty", "size", "gasLimit", "gasUsed", "timestamp">>,
     returnType |-> "callOptionsOrDefault",
     context |-> "Error getting uncle by block hash and index"]

getUncleByBlockNumberAndIndex ==
    [name |-> "getUncleByBlockNumberAndIndex", method |-> "eth_getUncleByBlockNumberAndIndex",
     args |-> <<Arg("blockIdentifier", "BlockIdentifier"), Arg("uncleIndex", "ValidTypes")>>,
     params |-> <<Formatted(1), Formatted(2)>>,
     normalize |-> "formatRpcResultArray",
     fields |-> <<"number", "nonce", "difficulty", "totalDifficulty", "size", "gasLimit", "gasUsed", "timestamp">>,
     returnType |-> "callOptionsOrDefault",
     context |-> "Error getting uncle by block number and index"]

getCompilers ==
    [name |-> "getCompilers", method |-> "eth_getCompilers",
     args |-> <<>>,
     params |-> <<>>,
     normalize |-> "none",
     fields |-> <<>>,
     returnType |-> "none",
     context |-> "Error getting compilers"]

compileSolidity ==
    [name |-> "compileSolidity", method |-> "eth_compileSolidity",
     args |-> <<Arg("sourceCode", "HexString")>>,
     params |-> <<Raw(1)>>,
     normalize |-> "none",
     fields |-> <<>>,
     returnType |-> "none",
     context |-> "Error getting compiling solidity code"]

compileLLL ==
    [name |-> "compileLLL", method |-> "eth_compileLLL",
     args |-> <<Arg("sourceCode", "HexString")>>,
     params |-> <<Raw(1)>>,
     normalize |-> "none",
     fields |-> <<>>,
     returnType |-> "none",
     context |-> "Error getting compiling LLL code"]

compileSerpent ==
    [name |-> "compileSerpent", method |-> "eth_compileSerpent",
     args |-> <<Arg("sourceCode", "HexString")>>,
     params |-> <<Raw(1)>>,
     normalize |-> "none",
     fields |-> <<>>,
     returnType |-> "none",
     context |-> "Error getting compiling serpent code"]

newFilter ==
    [name |-> "newFilter", method |-> "eth_newFilter",
     args |-> <<Arg("filter", "EthFilter")>>,
     params |-> <<Encoded(1, <<"fromBlock", "toBlock">>)>>,
     normalize |-> "formatOutput",
     fields |-> <<>>,
     returnType |-> "callOptionsOrDefault",
     context |-> "Error creating filter"]

newBlockFilter ==
    [name |-> "newBlockFilter", method |-> "eth_newBlockFilter",
     args |-> <<>>,
     params |-> <<>>,
     normalize |-> "formatOutput",
     fields |-> <<>>,
     returnType |-> "callOptionsOrDefault",
     context |-> "Error creating block filter"]

newPendingTransactionFilter ==
    [name |-> "newPendingTransactionFilter", method |-> "eth_newPendingTransactionFilter",
     args |-> <<>>,
     params |-> <<>>,
     normalize |-> "formatOutput",
     fields |-> <<>>,
     returnType |-> "callOptionsOrDefault",
     context |-> "Error creating pending transaction filter"]

uninstallFilter ==
    [name |-> "uninstallFilter", method |-> "eth_uninstallFilter",
     args |-> <<Arg("filterId", "ValidTypes")>>,
     params |-> <<Formatted(1)>>,
     normalize |-> "none",
     fields |-> <<>>,
     returnType |-> "none",
     context |-> "Error uninstalling filter"]

getFilterChanges ==
    [name |-> "getFilterChanges", method |-> "eth_getFilterChanges",
     args |-> <<Arg("filterId", "ValidTypes")>>,
     params |-> <<Formatted(1)>>,
     normalize |-> "formatRpcResultArray",
     fields |-> <<"logIndex", "transactionIndex", "blockNumber">>,
     returnType |-> "callOptionsOrDefault",
     context |-> "Error getting filter changes"]

\* getFilterLogs with the filter id sent as the caller passed it.
getFilterLogsRaw ==
    [name |-> "getFilterLogs", method |-> "eth_getFilterLogs",
     args |-> <<Arg("filterId", "ValidTypes")>>,
     params |-> <<Raw(1)>>,
     normalize |-> "formatRpcResultArray",
     fields |-> <<"logIndex", "transactionIndex", "blockNumber">>,
     returnType |-> "callOptionsOrDefault",
     context |-> "Error getting filter changes"]

getFilterLogs ==
    [name |-> "getFilterLogs", method |-> "eth_getFilterLogs",
     args |-> <<Arg("filterId", "ValidTypes")>>,
     params |-> <<Formatted(1)>>,
     normalize |-> "formatRpcResultArray",
     fields |-> <<"logIndex", "transactionIndex", "blockNumber">>,
     returnType |-> "callOptionsOrDefault",
     context |-> "Error getting filter changes"]

\* getLogs with its result handed to formatOutput.
getLogsScalar ==
    [name |-> "getLogs", method |-> "eth_getLogs",
     args |-> <<Arg("filter", "EthFilter")>>,
     params |-> <<Encoded(1, <<"fromBlock", "toBlock">>)>>,
     normalize |-> "formatOutput",
     fields |-> <<>>,
     returnType |-> "callOptionsOrDefault",
     context |-> "Error getting logs"]

getLogs ==
    [name |-> "getLogs", method |-> "eth_getLogs",
     args |-> <<Arg("filter", "EthFilter")>>,
     params |-> <<Encoded(1, <<"fromBlock", "toBlock">>)>>,
     normalize |-> "formatRpcResultArray",
     fields |-> <<"logIndex", "transactionIndex", "blockNumber">>,
     returnType |-> "callOptionsOrDefault",
     context |-> "Error getting logs"]

getWork ==
    [name |-> "getWork", method |-> "eth_getWork",
     args |-> <<>>,
     params |-> <<>>,
     normalize |-> "none",
     fields |-> <<>>,
     returnType |-> "none",
     context |-> "Error getting work"]

submitWork ==
    [name |-> "submitWork", method |-> "eth_submitWork",
     args |-> <<Arg("nonce", "ValidTypes"), Arg("powHash", "HexString"), Arg("digest", "HexString")>>,
     params |-> <<Formatted(1), Raw(2), Raw(3)>>,
     normalize |-> "none",
     fields |-> <<>>,
     returnType |-> "none",
     context |-> "Error submitting work"]

\* submitHashRate with the hash rate converted without a byte width.
submitHashRateUnpadded ==
    [name |-> "submitHashRate", method |-> "eth_submitHashRate",
     args |-> <<Arg("hashRate", "ValidTypes"), Arg("clientId", "ValidTypes")>>,
     params |-> <<Formatted(1), Formatted(2)>>,
     normalize |-> "none",
     fields |-> <<>>,
     returnType |-> "none",
     context |-> "Error submitting hash rate"]

submitHashRate ==
    [name |-> "submitHashRate", method |-> "eth_submitHashRate",
     args |-> <<Arg("hashRate", "ValidTypes"), Arg("clientId", "ValidTypes")>>,
     params |-> <<Padded(1, 32), Formatted(2)>>,
     normalize |-> "none",
     fields |-> <<>>,
     returnType |-> "none",
     context |-> "Error submitting hash rate"]

Operations ==
    {getClientVersion, getSha3, getNetworkVersion, getNetworkListening,
     getNetworkPeerCount, getProtocolVersion, getSyncing, getCoinbase,
     getMining, getHashRate, getGasPrice, getAccounts,
     getBlockNumber, getBalance, getStorageAt, getTransactionCount,
     getBlockTransactionCountByHash, getBlockTransactionCountByNumber, getUncleCountByBlockHash, getUncleCountByBlockNumber,
     getCode, sign, signTransaction, sendTransaction,
     sendRawTransaction, call, estimateGas, getBlockByHash,
     getBlockByNumber, getTransactionByHash, getTransactionByBlockHashAndIndex, getTransactionByBlockNumberAndIndex,
     getTransactionReceipt, getUncleByBlockHashAndIndex, getUncleByBlockNumberAndIndex, getCompilers,
     compileSolidity, compileLLL, compileSerpent, newFilter,
     newBlockFilter, newPendingTransactionFilter, uninstallFilter, getFilterChanges,
     getFilterLogs, getLogs, getWork, submitWork,
     submitHashRate}

OperationNamed(n) == CHOOSE o \in Operations : o.name = n

(***************************************************************************)
(* Building the params (the array literal of each handler, evaluated left  *)
(* to right: the first formatInput that throws ends the evaluation).       *)
(***************************************************************************)
\* The formatInput calls one param makes, in order: the field, the value, the width.
Conversion(field, value, width) == [field |-> field, value |-> value, width |-> width]

RECURSIVE ObjectConversions(_, _, _)
ObjectConversions(argName, o, fields) ==
    IF Len(fields) = 0 THEN <<>>
    ELSE (IF Truthy(Get(o, Head(fields)))
          THEN <<Conversion(Head(fields), Get(o, Head(fields)), NoWidth)>>
          ELSE <<>>) \o ObjectConversions(argName, o, Tail(fields))

ParamConversions(op, p, args) ==
    LET a == args[p.arg]
        field == op.args[p.arg].name
    IN  CASE p.how = "raw" -> <<>>
          [] p.how = "formatInput" -> <<Conversion(field, a, p.width)>>
          [] p.how = "tagOrFormatInput" ->
                IF _isBlockTag(a) THEN <<>> ELSE <<Conversion(field, a, p.width)>>
          [] p.how = "object" -> ObjectConversions(field, a, p.fields)

RECURSIVE AllConversions(_, _, _)
AllConversions(op, params, args) ==
    IF Len(params) = 0 THEN <<>>
    ELSE ParamConversions(op, Head(params), args) \o AllConversions(op, Tail(params), args)

\* The index of the first conversion that throws, 0 when none does.
FirstThrowing(convs) ==
    LET bad == {i \in 1..Len(convs) : ~formatInput(convs[i].value, convs[i].width).ok}
    IN  IF bad = {} THEN 0 ELSE CHOOSE i \in bad : \A j \in bad : i <= j

\* ParamValue with the arguments read in reverse order.
ParamValueReversed(p, args) ==
    LET a == args[Len(args) + 1 - p.arg]
    IN  CASE p.how = "raw" -> a
          [] p.how = "formatInput" -> formatInput(a, p.width).val
          [] p.how = "tagOrFormatInput" ->
                IF _isBlockTag(a) THEN a ELSE formatInput(a, p.width).val
          [] p.how = "object" ->
                Obj(Spread(a.v, [f \in {p.fields[i] : i \in 1..Len(p.fields)} |->
                    IF Truthy(Get(a, f)) THEN formatInput(Get(a, f), NoWidth).val
                    ELSE Undefined]))

\* The value of one param when no conversion throws.
ParamValue(p, args) ==
    LET a == args[p.arg]
    IN  CASE p.how = "raw" -> a
          [] p.how = "formatInput" -> formatInput(a, p.width).val
          [] p.how = "tagOrFormatInput" ->
                IF _isBlockTag(a) THEN a ELSE formatInput(a, p.width).val
          [] p.how = "object" ->
                Obj(Spread(a.v, [f \in {p.fields[i] : i \in 1..Len(p.fields)} |->
                    IF Truthy(Get(a, f)) THEN formatInput(Get(a, f), NoWidth).val
                    ELSE Undefined]))

\* BuildParams with a conversion's exception swallowed: the field is sent undefined.
BuildParamsSwallowing(op, args) ==
    [ok |-> TRUE, attempted |-> AllConversions(op, op.params, args), failed |-> "",
     params |-> [i \in 1..Len(op.params) |-> ParamValue(op.params[i], args)],
     msg |-> Undefined]

\* The evaluation of requestParameters: the conversions attempted, and either the
\* params or the message of the error thrown.
BuildParams(op, args) ==
    LET convs == AllConversions(op, op.params, args)
        k == FirstThrowing(convs)
    IN  IF k = 0
        THEN [ok |-> TRUE, attempted |-> convs, failed |-> "",
              params |-> [i \in 1..Len(op.params) |-> ParamValue(op.params[i], args)],
              msg |-> Undefined]
        ELSE [ok |-> FALSE, attempted |-> SubSeq(convs, 1, k), failed |-> convs[k].field,
              params |-> <<>>,
              msg |-> formatInput(convs[k].value, convs[k].width).msg]

(***************************************************************************)
(* The request manager's two entry points, as _send and _subscribe call    *)
(* them.                                                                   *)
(***************************************************************************)
Request(via, descriptor, providerCallOptions) ==
    [via |-> via, descriptor |-> descriptor, providerCallOptions |-> providerCallOptions]

\* _send with callOptions.rpcOptions spread after method and params.
_sendOverridable(method, params, callOptions) ==
    Request("send",
            Spread([method |-> Name(method), params |-> Arr(params)], callOptions.rpcOptions),
            callOptions.providerCallOptions)

_send(method, params, callOptions) ==
    Request("send",
            Spread(callOptions.rpcOptions, [method |-> Name(method), params |-> Arr(params)]),
            callOptions.providerCallOptions)

\* _subscribe without the spread of callOptions.rpcOptions.
_subscribeBare(method, params, callOptions) ==
    Request("subscribe", [method |-> Name(method), params |-> Arr(params)],
            callOptions.providerCallOptions)

_subscribe(method, params, callOptions) ==
    Request("subscribe",
            Spread(callOptions.rpcOptions, [method |-> Name(method), params |-> Arr(params)]),
            callOptions.providerCallOptions)

\* The transport a handler picks: callOptions?.subscribe ? _subscribe : _send.
Transmit(method, params, callOptions) ==
    IF callOptions.subscribe
    THEN _subscribe(method, params, callOptions)
    ELSE _send(method, params, callOptions)

(***************************************************************************)
(* The error a handler throws: Error(`${context}: ${error.message}`).      *)
(***************************************************************************)
NoReturnType == "undefined"
Wrapped(op, msg) == [context |-> op.context, cause |-> msg]
NoError == [context |-> "", cause |-> Undefined]

\* a || b on return types (the members of ValidTypesEnum are non-empty strings).
OrElse(a, b) == IF a # NoReturnType THEN a ELSE b

\* The target representation a handler passes to its normalizer.
TargetOf(op, callOptions, default) ==
    IF op.returnType = "callOptionsOrDefault"
    THEN OrElse(callOptions.returnType, default)
    ELSE default

\* Normalized with every field of a record converted, whatever the operation's list.
NormalizedEveryField(op, result, target) ==
    IF op.normalize = "formatOutput" THEN formatOutput(result, target)
    ELSE formatRpcResultArray(result,
            <<"hash", "number", "gasUsed", "totalDifficulty", "blockNumber", "logIndex", "gas",
              "v", "currentBlock">>, target)

\* Normalized with formatOutput called whatever the operation's result is.
NormalizedAsScalar(op, result, target) == formatOutput(result, target)

\* The normalizer call a handler makes on the response of send.
Normalized(op, result, target) ==
    IF op.normalize = "formatOutput" THEN formatOutput(result, target)
    ELSE formatRpcResultArray(result, op.fields, target)

(***************************************************************************)
(* The inputs of the model: what callers pass and what the request manager *)
(* answers.                                                                *)
(***************************************************************************)
HexStringInputs == {Str(<<"0", "x", "a", "b">>), Str(<<"0", "x", "c", "d">>)}
ValidTypesInputs == {Num(0), Num(100), Str(<<"0", "x", "0", "A">>), Str(<<"z", "z">>)}
BlockIdentifierInputs == ValidTypesInputs \cup BlockTags
BooleanInputs == {Bool(TRUE), Bool(FALSE)}

From == Str(<<"0", "x", "a", "b">>)
To == Str(<<"0", "x", "c", "d">>)
Data == Str(<<"0", "x", "0", "0", "f", "f">>)
Transactions ==
    {Obj([from |-> From, to |-> To, data |-> Data]),
     Obj([from |-> From, to |-> To, gas |-> Num(100), gasPrice |-> Str(<<"0", "x", "0", "A">>),
          value |-> Num(0), nonce |-> Num(100)]),
     Obj([from |-> From, gas |-> Str(<<"z", "z">>), value |-> Num(100)]),
     Obj([from |-> From, data |-> Data, gas |-> Num(100), nonce |-> Str(<<"z", "z">>)]),
     Obj([from |-> From, to |-> To, value |-> Str(<<"1", "0", "0">>)])}

Address == Str(<<"0", "x", "a", "b">>)
Topics == Arr(<<Str(<<"0", "x", "c", "d">>)>>)
Filters ==
    {Obj([address |-> Address, topics |-> Topics]),
     Obj([fromBlock |-> Num(0), toBlock |-> Num(100), address |-> Address]),
     Obj([fromBlock |-> Latest, toBlock |-> Pending, topics |-> Topics]),
     Obj([fromBlock |-> Num(100), toBlock |-> Str(<<"z", "z">>), address |-> Address]),
     Obj([fromBlock |-> Str(<<"0", "x", "0", "A">>), address |-> Address, topics |-> Topics])}

\* Hash rates: the ones above, one that fills 32 bytes and one of 33 bytes.
FullWidthRate == Str(<<"0", "x", "1">> \o Zeros(63))
WideRate == Str(<<"0", "x", "1">> \o Zeros(64))
HashRateInputs == ValidTypesInputs \cup {FullWidthRate, WideRate}

ArgInputs(type) ==
    CASE type = "HexString" -> HexStringInputs
      [] type = "string" -> HexStringInputs
      [] type = "ValidTypes" -> ValidTypesInputs
      [] type = "BlockIdentifier" -> BlockIdentifierInputs
      [] type = "boolean" -> BooleanInputs
      [] type = "EthTransaction" -> Transactions
      [] type = "EthCallTransaction" -> Transactions
      [] type = "EthFilter" -> Filters

\* The argument lists an operation can be called with.
ArgLists(op) ==
    LET n == Len(op.args)
        D(i) == IF op.args[i].name = "hashRate" THEN HashRateInputs
                ELSE ArgInputs(op.args[i].type)
    IN  CASE n = 0 -> {<<>>}
          [] n = 1 -> {<<a>> : a \in D(1)}
          [] n = 2 -> {<<a, b>> : a \in D(1), b \in D(2)}
          [] n = 3 -> {<<a, b, c>> : a \in D(1), b \in D(2), c \in D(3)}

\* callOptions; an absent callOptions reads like one with every key absent.
CallOptions(subscribe, returnType, rpcOptions, providerCallOptions) ==
    [subscribe |-> subscribe, returnType |-> returnType, rpcOptions |-> rpcOptions,
     providerCallOptions |-> providerCallOptions]
NoRpcOptions == [k \in {} |-> Undefined]
NoCallOptions == CallOptions(FALSE, NoReturnType, NoRpcOptions, Undefined)
CallOptionsInputs ==
    {NoCallOptions,
     CallOptions(TRUE, NoReturnType, NoRpcOptions, Undefined),
     CallOptions(FALSE, "Number", NoRpcOptions, Undefined),
     CallOptions(FALSE, "DecimalString",
                 [id |-> Num(7), jsonrpc |-> Name("2.0"), method |-> Name("eth_mining")],
                 Obj([timeout |-> Num(5)])),
     CallOptions(TRUE, "Number",
                 [id |-> Num(7), method |-> Name("eth_accounts"), params |-> Arr(<<>>)],
                 Obj([timeout |-> Num(5)]))}

\* The providerUrl of the constructor's options.
ProviderUrls == {Name("http://localhost:8545")}

\* The returnType of the constructor's options.
ConstructorReturnTypes == {NoReturnType, "Number", "BigInt"}

\* The responses of the request manager: the JSON-RPC envelope {id, jsonrpc, result}
\* or {id, jsonrpc, error}.
Success(result) == Obj([id |-> Num(1), jsonrpc |-> Name("2.0"), result |-> result])
ErrorEnvelope ==
    Obj([id |-> Num(1), jsonrpc |-> Name("2.0"),
         error |-> Obj([code |-> Num(32601), message |-> Name("Method not found")])])

Hash == Str(<<"0", "x", "a", "b">>)
FullRecord ==
    Obj([hash |-> Hash, number |-> Str(<<"0", "x", "1", "b">>),
         gasUsed |-> Str(<<"0", "x", "5", "2", "0", "8">>),
         totalDifficulty |-> Str(<<"0", "x", "0", "A">>),
         blockNumber |-> Str(<<"0", "x", "1", "b">>), logIndex |-> Str(<<"0", "x", "1">>),
         gas |-> Str(<<"0", "x", "5", "2", "0", "8">>), v |-> Str(<<"0", "x", "1", "c">>),
         currentBlock |-> Str(<<"0", "x", "1", "b">>)])
\* A record without the optional fields.
PartialRecord ==
    Obj([hash |-> Hash, number |-> Str(<<"0", "x", "2">>),
         blockNumber |-> Str(<<"0", "x", "2">>), currentBlock |-> Str(<<"0", "x", "2">>),
         gas |-> Str(<<"0", "x", "2">>)])
\* A record one of whose numeric fields is no numeral.
MalformedRecord ==
    Obj([hash |-> Hash, number |-> Str(<<"z", "z">>), blockNumber |-> Str(<<"z", "z">>),
         currentBlock |-> Str(<<"z", "z">>), gas |-> Str(<<"z", "z">>)])

LogRecords == {FullRecord, PartialRecord, MalformedRecord}
RECURSIVE LogArrays(_)
LogArrays(n) ==
    IF n = 0 THEN {<<>>}
    ELSE LogArrays(n - 1) \cup {Append(s, r) : s \in {t \in LogArrays(n - 1) : Len(t) = n - 1}, r \in LogRecords}

\* What the node answers with: a numeral, a string that is none, a boolean, null,
\* a record, an array of records.
Results ==
    {Str(<<"0", "x", "5", "2", "0", "8">>), Str(<<"0", "x", "0", "A">>), Str(<<"z", "z">>),
     Bool(FALSE), Null, FullRecord, PartialRecord, MalformedRecord}
        \cup {Arr(s) : s \in LogArrays(MaxLogs)}

SendResponses == {Success(r) : r \in Results} \cup {ErrorEnvelope}
SubscribeResponses == {Success(Str(<<"0", "x", "5", "2", "0", "8">>)), Success(FullRecord)}
\* The message of the error a rejected send or subscribe carries.
TransportErrors == {Obj([kind |-> Name("TransportError"), value |-> Name("connection refused")])}

(***************************************************************************)
(* The state: the client's configuration and the invocations in progress.  *)
(***************************************************************************)
VARIABLES
    \* this._defaultReturnType
    defaultReturnType,
    \* this._requestManager: the request manager the constructor made
    requestManager,
    \* a value on its way through the converter, when the converter is run on its own
    conversion,
    \* the invocation of each caller: where its handler stands, what it was called
    \* with, and what it has done so far
    calls

vars == <<defaultReturnType, requestManager, conversion, calls>>

Callers == {1, 2}
\* The callers of the sequential specification.
SequentialCallers == {1}

NoSettlement == [kind |-> "none", value |-> Undefined]
Idle ==
    [pc |-> "idle", op |-> "none", args |-> <<>>, callOptions |-> NoCallOptions,
     attempted |-> <<>>, failed |-> "", sent |-> <<>>, settlement |-> NoSettlement,
     normalized |-> <<>>, value |-> Undefined, error |-> NoError,
     \* the result the node answered the caller's previous invocation with, when this
     \* one is called with the value that one returned
     issued |-> Undefined]

\* No value is on its way through the converter.
NoConversion == [stage |-> "none", input |-> Undefined, decimal |-> Undefined, hex |-> Undefined]

\* new Web3RequestManager({providerUrl}).
Web3RequestManager(providerUrl) == [providerUrl |-> providerUrl]

\* The constructor.
Init ==
    /\ \E returnType \in ConstructorReturnTypes :
          defaultReturnType = OrElse(returnType, "HexString")
    /\ \E providerUrl \in ProviderUrls :
          requestManager = Web3RequestManager(providerUrl)
    /\ conversion = NoConversion
    /\ calls = [c \in Callers |-> Idle]

\* A handler runs from its call to its first await: it evaluates requestParameters
\* and hands them to _subscribe or _send; an exception goes to its catch clause.
Called(op, args, callOptions) ==
    LET built == BuildParams(op, args)
        started == [Idle EXCEPT !.op = op.name, !.args = args,
                                !.callOptions = callOptions,
                                !.attempted = built.attempted,
                                !.failed = built.failed]
    IN  IF built.ok
        THEN [started EXCEPT !.pc = "awaiting",
                !.sent = <<Transmit(op.method, built.params, callOptions)>>]
        ELSE [started EXCEPT !.pc = "threw",
                !.error = Wrapped(op, built.msg)]

InvokeAmong(c, operations, options) ==
    /\ calls[c].pc = "idle"
    /\ \E op \in operations, callOptions \in options :
          \E args \in ArgLists(op) :
             calls' = [calls EXCEPT ![c] = Called(op, args, callOptions)]
    /\ UNCHANGED <<defaultReturnType, requestManager, conversion>>

Invoke(c) == InvokeAmong(c, Operations, CallOptionsInputs)

\* AfterSend returning the normalized result alone, without the response around it.
AfterSendBare(op, running, response) ==
    IF op.normalize = "none"
    THEN [running EXCEPT !.pc = "returned", !.value = response]
    ELSE LET target == TargetOf(op, running.callOptions, defaultReturnType)
             result == Get(response, "result")
             out == Normalized(op, result, target)
             noted == [running EXCEPT !.normalized =
                          <<[fn |-> op.normalize, value |-> result, fields |-> op.fields,
                             target |-> target]>>]
         IN  IF out.ok
             THEN [noted EXCEPT !.pc = "returned", !.value = Obj([result |-> out.val])]
             ELSE [noted EXCEPT !.pc = "threw", !.error = Wrapped(op, out.msg)]

\* AfterSend with the request handed to the request manager once more when the
\* normalizer throws.
AfterSendResending(op, running, response) ==
    IF op.normalize = "none"
    THEN [running EXCEPT !.pc = "returned", !.value = response]
    ELSE LET target == TargetOf(op, running.callOptions, defaultReturnType)
             result == Get(response, "result")
             out == Normalized(op, result, target)
             noted == [running EXCEPT !.normalized =
                          <<[fn |-> op.normalize, value |-> result, fields |-> op.fields,
                             target |-> target]>>]
         IN  IF out.ok
             THEN [noted EXCEPT !.pc = "returned",
                     !.value = Obj(Spread(response.v, [result |-> out.val]))]
             ELSE [noted EXCEPT !.pc = "threw", !.error = Wrapped(op, out.msg),
                                !.sent = running.sent \o running.sent]

\* AfterSend with a normalizer's exception swallowed: the response is returned as it
\* came.
AfterSendSwallowing(op, running, response) ==
    IF op.normalize = "none"
    THEN [running EXCEPT !.pc = "returned", !.value = response]
    ELSE LET target == TargetOf(op, running.callOptions, defaultReturnType)
             result == Get(response, "result")
             out == Normalized(op, result, target)
             noted == [running EXCEPT !.normalized =
                          <<[fn |-> op.normalize, value |-> result, fields |-> op.fields,
                             target |-> target]>>]
         IN  IF out.ok
             THEN [noted EXCEPT !.pc = "returned",
                     !.value = Obj(Spread(response.v, [result |-> out.val]))]
             ELSE [noted EXCEPT !.pc = "returned", !.value = response]

\* The handler after `await this._send(...)` resolved with a response.
AfterSend(op, running, response) ==
    IF op.normalize = "none"
    THEN [running EXCEPT !.pc = "returned", !.value = response]
    ELSE LET target == TargetOf(op, running.callOptions, defaultReturnType)
             result == Get(response, "result")
             out == Normalized(op, result, target)
             noted == [running EXCEPT !.normalized =
                          <<[fn |-> op.normalize, value |-> result, fields |-> op.fields,
                             target |-> target]>>]
         IN  IF out.ok
             THEN [noted EXCEPT !.pc = "returned",
                     !.value = Obj(Spread(response.v, [result |-> out.val]))]
             ELSE [noted EXCEPT !.pc = "threw", !.error = Wrapped(op, out.msg)]

\* SendResolvesAmong with callOptions read from where the latest invocation in
\* progress left them, as if they were kept on the instance.
SendResolvesShared(c, responses) ==
    /\ calls[c].pc = "awaiting"
    /\ calls[c].sent[1].via = "send"
    /\ \E response \in responses :
          LET busy == {d \in Callers : calls[d].pc = "awaiting"}
              latest == CHOOSE d \in busy : \A e \in busy : e <= d
          IN  calls' = [calls EXCEPT ![c] =
                 [AfterSend(OperationNamed(calls[c].op),
                            [calls[c] EXCEPT !.settlement = [kind |-> "resolved", value |-> response],
                                             !.callOptions = calls[latest].callOptions],
                            response)
                    EXCEPT !.callOptions = calls[c].callOptions]]
    /\ UNCHANGED <<defaultReturnType, requestManager, conversion>>

SendResolvesAmong(c, responses) ==
    /\ calls[c].pc = "awaiting"
    /\ calls[c].sent[1].via = "send"
    /\ \E response \in responses :
          calls' = [calls EXCEPT ![c] =
             AfterSend(OperationNamed(calls[c].op),
                       [calls[c] EXCEPT !.settlement = [kind |-> "resolved", value |-> response]],
                       response)]
    /\ UNCHANGED <<defaultReturnType, requestManager, conversion>>

SendResolves(c) == SendResolvesAmong(c, SendResponses)

\* SubscribeResolves with what subscribe resolved with normalized as a response of
\* send is.
SubscribeResolvesNormalizing(c) ==
    /\ calls[c].pc = "awaiting"
    /\ calls[c].sent[1].via = "subscribe"
    /\ \E response \in SubscribeResponses :
          calls' = [calls EXCEPT ![c] =
             AfterSend(OperationNamed(calls[c].op),
                       [calls[c] EXCEPT !.settlement = [kind |-> "resolved", value |-> response]],
                       response)]
    /\ UNCHANGED <<defaultReturnType, requestManager, conversion>>

\* SubscribeResolves with the invocation's returnType stored as the client's default.
SubscribeResolvesAdopting(c) ==
    /\ calls[c].pc = "awaiting"
    /\ calls[c].sent[1].via = "subscribe"
    /\ \E response \in SubscribeResponses :
          calls' = [calls EXCEPT ![c] =
             [calls[c] EXCEPT !.pc = "returned", !.value = response,
                              !.settlement = [kind |-> "resolved", value |-> response]]]
    /\ defaultReturnType' = OrElse(calls[c].callOptions.returnType, defaultReturnType)
    /\ UNCHANGED <<requestManager, conversion>>

\* `await this._subscribe(...)` resolved: the handler returns what it resolved with.
SubscribeResolves(c) ==
    /\ calls[c].pc = "awaiting"
    /\ calls[c].sent[1].via = "subscribe"
    /\ \E response \in SubscribeResponses :
          calls' = [calls EXCEPT ![c] =
             [calls[c] EXCEPT !.pc = "returned", !.value = response,
                              !.settlement = [kind |-> "resolved", value |-> response]]]
    /\ UNCHANGED <<defaultReturnType, requestManager, conversion>>

\* Rejects with the request handed to the request manager a second time before the
\* catch clause gives up.
RejectsRetrying(c) ==
    /\ calls[c].pc = "awaiting"
    /\ \E e \in TransportErrors :
          calls' = [calls EXCEPT ![c] =
             IF Len(calls[c].sent) = 1
             THEN [calls[c] EXCEPT !.sent = calls[c].sent \o calls[c].sent]
             ELSE [calls[c] EXCEPT !.pc = "threw",
                                   !.error = Wrapped(OperationNamed(calls[c].op), e),
                                   !.settlement = [kind |-> "rejected", value |-> e]]]
    /\ UNCHANGED <<defaultReturnType, requestManager, conversion>>

\* The awaited promise rejected: the catch clause wraps the error and throws.
Rejects(c) ==
    /\ calls[c].pc = "awaiting"
    /\ \E e \in TransportErrors :
          calls' = [calls EXCEPT ![c] =
             [calls[c] EXCEPT !.pc = "threw",
                              !.error = Wrapped(OperationNamed(calls[c].op), e),
                              !.settlement = [kind |-> "rejected", value |-> e]]]
    /\ UNCHANGED <<defaultReturnType, requestManager, conversion>>

\* The caller has its value or its error; it may call again.
Settle(c) ==
    /\ calls[c].pc \in {"returned", "threw"}
    /\ calls' = [calls EXCEPT ![c] = Idle]
    /\ UNCHANGED <<defaultReturnType, requestManager, conversion>>

Next ==
    \E c \in SequentialCallers :
        \/ Invoke(c)
        \/ SendResolves(c)
        \/ SubscribeResolves(c)
        \/ Rejects(c)
        \/ Settle(c)

Spec == Init /\ [][Next]_vars

(***************************************************************************)
(* Two callers of one client whose invocations overlap: each may call      *)
(* while the other awaits, and the request manager settles the two         *)
(* promises in any order.                                                  *)
(***************************************************************************)
ConcurrentOperations == {getLogs, getGasPrice, getSyncing, getAccounts}
ConcurrentCallOptions ==
    {NoCallOptions,
     CallOptions(TRUE, NoReturnType, NoRpcOptions, Undefined),
     CallOptions(FALSE, "Number", [id |-> Num(7)], Obj([timeout |-> Num(5)]))}
ConcurrentResponses ==
    {Success(Str(<<"0", "x", "5", "2", "0", "8">>)), Success(Bool(FALSE)), Success(Null),
     Success(FullRecord), Success(Arr(<<FullRecord, PartialRecord>>)),
     Success(Arr(<<MalformedRecord>>))}

ConcurrentInvoke(c) == InvokeAmong(c, ConcurrentOperations, ConcurrentCallOptions)
ConcurrentSendResolves(c) == SendResolvesAmong(c, ConcurrentResponses)

ConcurrentNext ==
    \E c \in Callers :
        \/ ConcurrentInvoke(c)
        \/ ConcurrentSendResolves(c)
        \/ SubscribeResolves(c)
        \/ Rejects(c)
        \/ Settle(c)

ConcurrentSpec == Init /\ [][ConcurrentNext]_vars

(***************************************************************************)
(* The await seen in two steps: the request manager settles the promise    *)
(* the handler awaits, and the handler's continuation runs afterwards.     *)
(* A settled promise's continuation is queued as a microtask, which the    *)
(* event loop runs: the continuation is weakly fair.  Nothing obliges the  *)
(* request manager to settle.                                              *)
(***************************************************************************)
\* Every operation is called, in send mode and in subscribe mode; the responses
\* make the rest of the try block return and throw.
SettlingCallOptions == {NoCallOptions, CallOptions(TRUE, NoReturnType, NoRpcOptions, Undefined)}
SettlingResponses ==
    {Success(Str(<<"0", "x", "5", "2", "0", "8">>)), Success(Str(<<"z", "z">>)),
     Success(FullRecord)}
SettlingInvoke(c) == InvokeAmong(c, Operations, SettlingCallOptions)

\* The promise of _send or _subscribe resolves; the handler has not resumed yet.
ManagerResolves(c) ==
    /\ calls[c].pc = "awaiting"
    /\ calls[c].settlement.kind = "none"
    /\ \E response \in IF calls[c].sent[1].via = "send" THEN SettlingResponses
                                                         ELSE SubscribeResponses :
          calls' = [calls EXCEPT ![c].settlement = [kind |-> "resolved", value |-> response]]
    /\ UNCHANGED <<defaultReturnType, requestManager, conversion>>

\* The promise rejects; the handler has not resumed yet.
ManagerRejects(c) ==
    /\ calls[c].pc = "awaiting"
    /\ calls[c].settlement.kind = "none"
    /\ \E e \in TransportErrors :
          calls' = [calls EXCEPT ![c].settlement = [kind |-> "rejected", value |-> e]]
    /\ UNCHANGED <<defaultReturnType, requestManager, conversion>>

\* Resumes with a catch clause that hands the request to the request manager once
\* more and awaits again instead of throwing.
ResumesRetrying(c) ==
    /\ calls[c].pc = "awaiting"
    /\ calls[c].settlement.kind # "none"
    /\ calls' = [calls EXCEPT ![c] =
          IF calls[c].settlement.kind = "rejected"
          THEN IF Len(calls[c].sent) = 1
               THEN [calls[c] EXCEPT !.sent = calls[c].sent \o calls[c].sent,
                                     !.settlement = NoSettlement]
               ELSE [calls[c] EXCEPT !.pc = "threw",
                       !.error = Wrapped(OperationNamed(calls[c].op), calls[c].settlement.value)]
          ELSE IF calls[c].sent[1].via = "send"
               THEN AfterSend(OperationNamed(calls[c].op), calls[c], calls[c].settlement.value)
               ELSE [calls[c] EXCEPT !.pc = "returned", !.value = calls[c].settlement.value]]
    /\ UNCHANGED <<defaultReturnType, requestManager, conversion>>

\* The handler resumes after its await: the catch clause on a rejection, the rest
\* of the try block on a response.
Resumes(c) ==
    /\ calls[c].pc = "awaiting"
    /\ calls[c].settlement.kind # "none"
    /\ calls' = [calls EXCEPT ![c] =
          IF calls[c].settlement.kind = "rejected"
          THEN [calls[c] EXCEPT !.pc = "threw",
                  !.error = Wrapped(OperationNamed(calls[c].op), calls[c].settlement.value)]
          ELSE IF calls[c].sent[1].via = "send"
               THEN AfterSend(OperationNamed(calls[c].op), calls[c], calls[c].settlement.value)
               ELSE [calls[c] EXCEPT !.pc = "returned", !.value = calls[c].settlement.value]]
    /\ UNCHANGED <<defaultReturnType, requestManager, conversion>>

SettlingNext ==
    \E c \in SequentialCallers :
        \/ SettlingInvoke(c)
        \/ ManagerResolves(c)
        \/ ManagerRejects(c)
        \/ Resumes(c)
        \/ Settle(c)

SettlingSpec ==
    /\ Init
    /\ [][SettlingNext]_vars
    /\ \A c \in SequentialCallers : WF_vars(Resumes(c))

(***************************************************************************)
(* A caller that creates a filter and passes the filter id it was returned *)
(* to the operations that take one.                                        *)
(***************************************************************************)
FilterCreators == {newFilter, newBlockFilter, newPendingTransactionFilter}
FilterUsers == {getFilterChanges, getFilterLogs, uninstallFilter}
\* The filter ids the node issues.
FilterIds ==
    {Str(<<"0", "x", "0">>), Str(<<"0", "x", "1">>), Str(<<"0", "x", "5", "2", "0", "8">>),
     Str(<<"0", "x", "a", "b">>), Str(<<"0", "x", "0", "A">>)}
FilterCallOptions ==
    {CallOptions(FALSE, t, NoRpcOptions, Undefined) : t \in {NoReturnType} \cup ValidTypesEnum}
        \cup {CallOptions(TRUE, NoReturnType, NoRpcOptions, Undefined)}

CreateFilter(c) == InvokeAmong(c, FilterCreators, FilterCallOptions)
NodeAnswers(c) == SendResolvesAmong(c, {Success(id) : id \in FilterIds} \cup {Success(Bool(TRUE))})

\* The caller calls again, with the result of the response it was just returned.
PassBack(c) ==
    /\ calls[c].pc = "returned"
    /\ OperationNamed(calls[c].op) \in FilterCreators
    /\ calls[c].sent[1].via = "send"
    /\ \E op \in FilterUsers, callOptions \in FilterCallOptions :
          calls' = [calls EXCEPT ![c] =
             [Called(op, <<Get(calls[c].value, "result")>>, callOptions)
                EXCEPT !.issued = Get(calls[c].settlement.value, "result")]]
    /\ UNCHANGED <<defaultReturnType, requestManager, conversion>>

FilterNext ==
    \E c \in SequentialCallers :
        \/ CreateFilter(c)
        \/ NodeAnswers(c)
        \/ PassBack(c)
        \/ SubscribeResolves(c)
        \/ Rejects(c)
        \/ Settle(c)

FilterSpec == Init /\ [][FilterNext]_vars

(***************************************************************************)
(* The converter on its own: a hexadecimal string is converted to a        *)
(* decimal string, and that back to a hexadecimal string.                  *)
(***************************************************************************)
HexAlphabet == {"0", "1", "9", "a", "F"}
RECURSIVE DigitStrings(_)
DigitStrings(n) ==
    IF n = 0 THEN {<<>>}
    ELSE DigitStrings(n - 1)
            \cup {Append(d, x) : d \in {e \in DigitStrings(n - 1) : Len(e) = n - 1}, x \in HexAlphabet}
HexStrings == {Str(<<"0", "x">> \o d) : d \in DigitStrings(MaxHexDigits) \ {<<>>}}

ConverterInit ==
    /\ defaultReturnType = "HexString"
    /\ \E providerUrl \in ProviderUrls :
          requestManager = Web3RequestManager(providerUrl)
    /\ calls = [c \in Callers |-> Idle]
    /\ \E h \in HexStrings : conversion = [NoConversion EXCEPT !.stage = "input", !.input = h]

\* convert(h, DecimalString)
ToDecimalString ==
    /\ conversion.stage = "input"
    /\ conversion' = [conversion EXCEPT !.stage = "decimal",
                         !.decimal = formatOutput(conversion.input, "DecimalString").val]
    /\ UNCHANGED <<defaultReturnType, requestManager, calls>>

\* convert(_, HexString)
ToHexString ==
    /\ conversion.stage = "decimal"
    /\ conversion' = [conversion EXCEPT !.stage = "hex",
                         !.hex = formatInput(conversion.decimal, NoWidth).val]
    /\ UNCHANGED <<defaultReturnType, requestManager, calls>>

ConverterNext == ToDecimalString \/ ToHexString

ConverterSpec == ConverterInit /\ [][ConverterNext]_vars

(***************************************************************************)
(* The properties.                                                         *)
(***************************************************************************)
\* The invocations that have started, and the operation of one.
Started == {c \in Callers : calls[c].pc # "idle"}
OperationOf(c) == OperationNamed(calls[c].op)
\* The invocations that handed a request to the request manager, and its parts.
Transmitted == {c \in Started : calls[c].sent # <<>>}
DescriptorOf(c) == calls[c].sent[1].descriptor
ParamsOf(c) == DescriptorOf(c)["params"].v
\* The invocations whose send resolved, and the response.
Answered == {c \in Transmitted : calls[c].sent[1].via = "send" /\ calls[c].settlement.kind = "resolved"}
ResponseOf(c) == calls[c].settlement.value
\* Whether an attempted conversion threw.
Threw(conv) == ~formatInput(conv.value, conv.width).ok
ConversionFailed(c) == \E i \in 1..Len(calls[c].attempted) : Threw(calls[c].attempted[i])

\* C1: getBalance hands the request manager the method name 'eth_getBalance' and
\* the params [address, block identifier].
C1_GetBalanceDescriptor ==
    \A c \in Transmitted :
        calls[c].op = "getBalance" =>
            /\ DescriptorOf(c)["method"] = Name("eth_getBalance")
            /\ Len(ParamsOf(c)) = 2
            /\ ParamsOf(c)[1] = calls[c].args[1]
            /\ ParamsOf(c)[2] = IF _isBlockTag(calls[c].args[2]) THEN calls[c].args[2]
                                ELSE formatInput(calls[c].args[2], NoWidth).val

\* C2: in every operation that takes a block identifier, a block tag is never handed
\* to formatInput, and it is in the params verbatim.
C2_BlockTagsBypassFormatInput ==
    \A c \in Started :
        LET op == OperationOf(c)
            args == calls[c].args
        IN  /\ \A i \in 1..Len(calls[c].attempted) : ~_isBlockTag(calls[c].attempted[i].value)
            /\ c \in Transmitted =>
                  \A j \in 1..Len(op.params) :
                     LET type == op.args[op.params[j].arg].type
                         given == args[op.params[j].arg]
                     IN  /\ (type = "BlockIdentifier" /\ _isBlockTag(given))
                                => ParamsOf(c)[j] = given
                         /\ type = "EthFilter" =>
                                \A f \in {"fromBlock", "toBlock"} :
                                   _isBlockTag(Get(given, f)) => Get(ParamsOf(c)[j], f) = Get(given, f)

\* C3: if a formatInput call of an invocation throws, the invocation hands nothing
\* to the request manager, whatever converted before.
C3_NoTransmissionAfterFailedConversion ==
    \A c \in Started : ConversionFailed(c) => calls[c].sent = <<>> /\ calls[c].pc = "threw"

\* C3's case: a second conversion threw after a first succeeded, and nothing was sent.
C3_Witness ==
    \E c \in Started :
        /\ Len(calls[c].attempted) >= 2
        /\ ~Threw(calls[c].attempted[1])
        /\ Threw(calls[c].attempted[Len(calls[c].attempted)])
        /\ calls[c].sent = <<>>
        /\ calls[c].pc = "threw"

\* C4: the error of a failed conversion identifies the field that failed: no call of
\* the same operation that fails in another field throws the same error.
C4_ErrorIdentifiesField ==
    \A c \in Started :
        ConversionFailed(c) =>
            \A args \in ArgLists(OperationOf(c)) :
                LET other == BuildParams(OperationOf(c), args)
                IN  (~other.ok /\ Wrapped(OperationOf(c), other.msg) = calls[c].error)
                        => other.failed = calls[c].failed

\* A response that carries error and no result.
IsErrorEnvelope(response) == "error" \in Keys(response) /\ "result" \notin Keys(response)

\* C5: a response that carries error and no result makes the operation throw its
\* wrapped error, without running a normalizer.
C5_ErrorEnvelopeIsRaised ==
    \A c \in Answered :
        IsErrorEnvelope(ResponseOf(c)) =>
            /\ calls[c].pc = "threw"
            /\ calls[c].error.context = OperationOf(c).context
            /\ calls[c].normalized = <<>>

\* The operations that look something up and answer null when there is none.
LookupOperations ==
    {"getBlockByHash", "getBlockByNumber", "getTransactionByHash",
     "getTransactionByBlockHashAndIndex", "getTransactionByBlockNumberAndIndex",
     "getTransactionReceipt", "getUncleByBlockHashAndIndex", "getUncleByBlockNumberAndIndex",
     "getFilterChanges", "getFilterLogs", "getLogs"}

\* C6: a lookup whose response has result null returns it with result null, throws
\* nothing and converts nothing, whatever the target representation.
C6_NullLookupPassesThrough ==
    \A c \in Answered :
        (calls[c].op \in LookupOperations /\ Get(ResponseOf(c), "result") = Null) =>
            /\ calls[c].pc = "returned"
            /\ calls[c].error = NoError
            /\ calls[c].value = ResponseOf(c)

\* C6's case: a receipt lookup under target Number answered with result null.
C6_Witness ==
    \E c \in Answered :
        /\ calls[c].op = "getTransactionReceipt"
        /\ calls[c].callOptions.returnType = "Number"
        /\ Get(ResponseOf(c), "result") = Null
        /\ Get(calls[c].value, "result") = Null

C8_TargetIsCallOptionOrDefault ==
    \A c \in Answered :
        \A i \in 1..Len(calls[c].normalized) :
            calls[c].normalized[i].target =
                IF calls[c].callOptions.returnType # NoReturnType
                THEN calls[c].callOptions.returnType
                ELSE defaultReturnType

\* Whether the caller supplied field f of object o.
Supplied(o, f) == f \in Keys(o) /\ o.v[f] # Undefined

\* C9: every encodable field the caller supplies with a valid value is sent as
\* formatInput of it, and every other field as supplied.
C9_SuppliedFieldsAreEncoded ==
    \A c \in Transmitted :
        LET op == OperationOf(c)
        IN  \A j \in 1..Len(op.params) :
                op.params[j].how = "object" =>
                    LET given == calls[c].args[op.params[j].arg]
                        encoded == {op.params[j].fields[i] : i \in 1..Len(op.params[j].fields)}
                    IN  \A f \in Keys(given) :
                            Get(ParamsOf(c)[j], f) =
                                IF f \in encoded /\ Supplied(given, f)
                                THEN formatInput(given.v[f], NoWidth).val
                                ELSE given.v[f]

\* C10: the request goes to subscribe when callOptions.subscribe is set and to send
\* otherwise, once, and with the same descriptor and providerCallOptions either way.
C10_SelectedTransportSameDescriptor ==
    \A c \in Transmitted :
        LET op == OperationOf(c)
            params == BuildParams(op, calls[c].args).params
            bySend == _send(op.method, params, calls[c].callOptions)
            bySubscribe == _subscribe(op.method, params, calls[c].callOptions)
        IN  /\ Len(calls[c].sent) = 1
            /\ calls[c].sent[1].via = IF calls[c].callOptions.subscribe THEN "subscribe" ELSE "send"
            /\ calls[c].sent[1] \in {bySend, bySubscribe}
            /\ bySend.descriptor = bySubscribe.descriptor
            /\ bySend.providerCallOptions = bySubscribe.providerCallOptions
            /\ bySend.via = "send" /\ bySubscribe.via = "subscribe"

\* C10's case: a subscribe-mode call with rpcOptions and providerCallOptions.
C10_Witness ==
    \E c \in Transmitted :
        /\ calls[c].callOptions.subscribe
        /\ DOMAIN calls[c].callOptions.rpcOptions # {}
        /\ calls[c].callOptions.providerCallOptions # Undefined
        /\ calls[c].sent[1].via = "subscribe"
        /\ DescriptorOf(c)["id"] = Num(7)

\* Whether the normalizer call of an invocation threw.
NormalizationFailed(c) ==
    /\ calls[c].normalized # <<>>
    /\ ~Normalized(OperationOf(c), calls[c].normalized[1].value, calls[c].normalized[1].target).ok
\* The invocations that are over, with a value or with an error.
Returned == {c \in Started : calls[c].pc = "returned"}
Thrown == {c \in Started : calls[c].pc = "threw"}

\* C11: an invocation hands the request manager at most one request (send and
\* subscribe together), and exactly one when its input conversions succeeded,
\* whether the transport or the normalization then succeeds or fails.
C11_AtMostOneRequest ==
    \A c \in Started :
        /\ Len(calls[c].sent) <= 1
        /\ ~ConversionFailed(c) => Len(calls[c].sent) = 1

\* C11's case: the transport rejected the one request of an invocation, which threw.
C11_Witness ==
    \E c \in Thrown :
        /\ calls[c].settlement.kind = "rejected"
        /\ Len(calls[c].sent) = 1
        /\ ~ConversionFailed(c)

\* The message of the error a failure inside an invocation raised: of the formatInput
\* that threw, of the rejection, or of the normalizer that threw.
Failures(c) ==
    {formatInput(calls[c].attempted[i].value, calls[c].attempted[i].width).msg :
        i \in {j \in 1..Len(calls[c].attempted) : Threw(calls[c].attempted[j])}}
    \cup (IF calls[c].settlement.kind = "rejected" THEN {calls[c].settlement.value} ELSE {})
    \cup (IF NormalizationFailed(c)
          THEN {Normalized(OperationOf(c), calls[c].normalized[1].value,
                           calls[c].normalized[1].target).msg}
          ELSE {})

\* C12: a failure inside an invocation (input conversion, a rejected send or
\* subscribe, normalization) makes it throw one error, made of the operation's
\* context text and the message of that failure; an invocation that returns a value
\* had no failure.
C12_FailuresAreWrappedAndRaised ==
    \A c \in Started :
        /\ Failures(c) # {} =>
              /\ c \in Thrown
              /\ calls[c].value = Undefined
              /\ Failures(c) = {calls[c].error.cause}
              /\ calls[c].error.context = OperationOf(c).context
        /\ c \in Returned => Failures(c) = {} /\ calls[c].error = NoError
        /\ c \in Thrown => Failures(c) # {}

\* C12's case: the normalizer of a send-mode invocation threw and the invocation
\* threw that error under its context text.
C12_Witness ==
    \E c \in Thrown :
        /\ NormalizationFailed(c)
        /\ calls[c].error.context = OperationOf(c).context
        /\ calls[c].error.cause # Undefined
        /\ calls[c].error.cause \notin TransportErrors

\* C13: the context text of the error an invocation throws belongs to its operation
\* alone: no other public operation wraps its failures with the same text.
C13_ContextIsMethodSpecific ==
    \A c \in Thrown :
        \A other \in Operations :
            other.context = calls[c].error.context => other.name = calls[c].op

\* C14: getSha3 hands the request manager the method name 'web3_sha3' and the
\* params [data], in send and in subscribe mode.
C14_GetSha3Descriptor ==
    \A c \in Transmitted :
        calls[c].op = "getSha3" =>
            /\ DescriptorOf(c)["method"] = Name("web3_sha3")
            /\ ParamsOf(c) = <<calls[c].args[1]>>

\* C15: call and estimateGas take a block identifier after the transaction and send
\* it as the second positional parameter.
C15_CallTakesBlockIdentifier ==
    \A c \in Transmitted :
        calls[c].op \in {"call", "estimateGas"} =>
            /\ Len(OperationOf(c).args) = 2
            /\ OperationOf(c).args[2].type = "BlockIdentifier"
            /\ Len(ParamsOf(c)) = 2
            /\ ParamsOf(c)[2] \in {calls[c].args[2], formatInput(calls[c].args[2], NoWidth).val}

\* The operations with more than one positional parameter.
SeveralParams == {o.name : o \in {p \in Operations : Len(p.params) > 1}}

\* C16: an operation with more than one positional parameter sends as many params as
\* it has arguments, the i-th param being its i-th argument, as supplied or as
\* formatInput made it.
C16_ParamsFollowArguments ==
    \A c \in Transmitted :
        LET args == calls[c].args
        IN  (calls[c].op \in SeveralParams \/ Len(args) > 1) =>
                /\ Len(ParamsOf(c)) = Len(args)
                /\ \A i \in 1..Len(args) :
                       ParamsOf(c)[i] \in
                          {args[i]} \cup {formatInput(args[i], w).val : w \in {NoWidth, 32}}

\* C16's case: getStorageAt sent three params made of three different arguments.
C16_Witness ==
    \E c \in Transmitted :
        /\ calls[c].op = "getStorageAt"
        /\ calls[c].args[2] = Num(0)
        /\ calls[c].args[3] = Num(100)
        /\ ParamsOf(c) = <<calls[c].args[1], Str(<<"0", "x", "0">>), Str(<<"0", "x", "6", "4">>)>>

\* C17: submitHashRate sends a hash rate that fits in 32 bytes as 0x and 64
\* hexadecimal digits, zeros to the left of the rate's own digits, and throws a
\* conversion error, sending nothing, for a hash rate of more than 32 bytes.
C17_HashRateIsPaddedTo32Bytes ==
    \A c \in Started :
        (calls[c].op = "submitHashRate" /\ IsNumeral(calls[c].args[1])) =>
            LET rate == HexDigits(calls[c].args[1])
            IN  IF Len(rate) <= 2 * 32
                THEN c \in Transmitted =>
                        /\ ParamsOf(c)[1].t = "str"
                        /\ Len(ParamsOf(c)[1].v) = 2 + 2 * 32
                        /\ SubSeq(ParamsOf(c)[1].v, 1, 2) = <<"0", "x">>
                        /\ SubSeq(ParamsOf(c)[1].v, 3, 2 * 32 - Len(rate) + 2)
                              = Zeros(2 * 32 - Len(rate))
                        /\ SubSeq(ParamsOf(c)[1].v, 2 * 32 - Len(rate) + 3, 2 * 32 + 2) = rate
                ELSE /\ c \in Thrown
                     /\ calls[c].sent = <<>>
                     /\ calls[c].failed = "hashRate"
                     /\ Get(calls[c].error.cause, "kind") = Name("ConversionError")

\* C17's case: the hash rate 100 was sent as 62 zeros and 64.
C17_Witness ==
    \E c \in Transmitted :
        /\ calls[c].op = "submitHashRate"
        /\ calls[c].args[1] = Num(100)
        /\ ParamsOf(c)[1] = Str(<<"0", "x">> \o Zeros(62) \o <<"6", "4">>)

\* The target representation of an invocation, from its own callOptions.
OwnTarget(c) ==
    IF OperationOf(c).returnType = "callOptionsOrDefault"
          /\ calls[c].callOptions.returnType # NoReturnType
    THEN calls[c].callOptions.returnType
    ELSE defaultReturnType

\* The outcome of an answered invocation when it runs alone: what its handler makes
\* of its own response under its own target.
OutcomeAlone(c) ==
    LET op == OperationOf(c)
        out == Normalized(op, Get(ResponseOf(c), "result"), OwnTarget(c))
    IN  IF op.normalize = "none"
        THEN [pc |-> "returned", value |-> ResponseOf(c), error |-> NoError]
        ELSE IF out.ok
        THEN [pc |-> "returned", value |-> Obj(Spread(ResponseOf(c).v, [result |-> out.val])),
              error |-> NoError]
        ELSE [pc |-> "threw", value |-> Undefined, error |-> Wrapped(op, out.msg)]

\* C18: however the invocations of two callers and the request manager's responses
\* interleave, each invocation sends the descriptor built from its own arguments and
\* ends as it does alone: with the normalization of its own response under its own
\* target representation.
C18_ConcurrentCallsDoNotInterfere ==
    \A c \in Started :
        /\ c \in Transmitted =>
              calls[c].sent = <<Transmit(OperationOf(c).method,
                                         BuildParams(OperationOf(c), calls[c].args).params,
                                         calls[c].callOptions)>>
        /\ c \in Answered =>
              /\ calls[c].pc = OutcomeAlone(c).pc
              /\ calls[c].value = OutcomeAlone(c).value
              /\ calls[c].error = OutcomeAlone(c).error
              /\ \A i \in 1..Len(calls[c].normalized) :
                     /\ calls[c].normalized[i].value = Get(ResponseOf(c), "result")
                     /\ calls[c].normalized[i].target = OwnTarget(c)

\* C18's case: two overlapping invocations of different operations, under different
\* targets, each answered with its own response and returned.
C18_Witness ==
    /\ calls[1].op = "getLogs" /\ calls[2].op = "getGasPrice"
    /\ calls[1].callOptions.returnType = "Number"
    /\ calls[2].callOptions.returnType = NoReturnType
    /\ {1, 2} \subseteq Answered \cap Returned
    /\ Get(ResponseOf(1), "result") = Arr(<<FullRecord, PartialRecord>>)
    /\ Get(ResponseOf(2), "result") = Str(<<"0", "x", "5", "2", "0", "8">>)
    /\ Get(calls[2].value, "result") = formatOutput(Str(<<"0", "x", "5", "2", "0", "8">>),
                                                    defaultReturnType).val

\* C19: no step of any invocation changes the client's default representation or
\* its request manager, and from its call to its end an invocation's arguments and
\* callOptions stay as the caller passed them.
C19_CallsChangeNothing ==
    [][/\ defaultReturnType' = defaultReturnType
       /\ requestManager' = requestManager
       /\ \A c \in Callers :
             (calls[c].pc # "idle" /\ calls'[c].pc # "idle") =>
                 /\ calls'[c].args = calls[c].args
                 /\ calls'[c].callOptions = calls[c].callOptions]_vars

\* C19's case: signTransaction returned after sending an encoded copy of the
\* transaction, which is not the transaction it was passed.
C19_Witness ==
    \E c \in Returned :
        /\ calls[c].op = "signTransaction"
        /\ calls[c].args[1] \in Transactions
        /\ ParamsOf(c)[1] # calls[c].args[1]
        /\ Get(calls[c].args[1], "gas") = Num(100)
        /\ Get(ParamsOf(c)[1], "gas") = Str(<<"0", "x", "6", "4">>)
        /\ requestManager = Web3RequestManager(Name("http://localhost:8545"))

\* The log queries, and the fields of a log record they convert.
LogQueries == {"getFilterChanges", "getFilterLogs", "getLogs"}
LogFields == {"logIndex", "transactionIndex", "blockNumber"}
\* Whether every such field a record holds is a numeral.
IsLogRecord(x) == x.t = "obj" /\ \A f \in LogFields \cap Keys(x) : IsNumeral(x.v[f])

\* C20: a log query answered with a sequence of records returns a sequence of the
\* same length and order, entry i being entry i of the result with its logIndex,
\* transactionIndex and blockNumber converted to the target and nothing else
\* changed; the empty sequence is returned empty.
C20_LogsAreNormalizedElementwise ==
    \A c \in Answered :
        LET result == Get(ResponseOf(c), "result")
        IN  (/\ calls[c].op \in LogQueries
             /\ result.t = "arr"
             /\ \A i \in 1..Len(result.v) : IsLogRecord(result.v[i])) =>
                /\ c \in Returned
                /\ Get(calls[c].value, "result").t = "arr"
                /\ Len(Get(calls[c].value, "result").v) = Len(result.v)
                /\ \A i \in 1..Len(result.v) :
                       LET given == result.v[i]
                           made == Get(calls[c].value, "result").v[i]
                       IN  /\ Keys(made) = Keys(given)
                           /\ \A k \in Keys(given) :
                                  made.v[k] = IF k \in LogFields
                                              THEN formatOutput(given.v[k], OwnTarget(c)).val
                                              ELSE given.v[k]

\* C20's case: getLogs under target Number answered with two different records.
C20_Witness ==
    \E c \in Answered \cap Returned :
        /\ calls[c].op = "getLogs"
        /\ OwnTarget(c) = "Number"
        /\ Get(ResponseOf(c), "result") = Arr(<<PartialRecord, FullRecord>>)
        /\ Get(Get(calls[c].value, "result").v[1], "blockNumber") = Num(2)
        /\ Get(Get(calls[c].value, "result").v[2], "blockNumber") = Num(27)
        /\ Get(Get(calls[c].value, "result").v[2], "logIndex") = Num(1)

\* The names of an operation's decode list, and whether every one of them a record
\* holds is a numeral.
Named(op) == {op.fields[i] : i \in 1..Len(op.fields)}
Decodable(op, x) == \A f \in Named(op) \cap Keys(x) : IsNumeral(x.v[f])

\* C21: a record is returned with the keys it was received with: a field of the
\* operation's decode list that the record holds is converted to the target, a
\* listed field it lacks is neither an error nor a new key, and every other field
\* keeps the value received.
C21_OnlyListedPresentFieldsChange ==
    \A c \in Answered :
        LET op == OperationOf(c)
            given == Get(ResponseOf(c), "result")
            made == Get(calls[c].value, "result")
        IN  (op.normalize = "formatRpcResultArray" /\ given.t = "obj" /\ Decodable(op, given)) =>
                /\ c \in Returned
                /\ made.t = "obj"
                /\ Keys(made) = Keys(given)
                /\ \A k \in Keys(given) :
                       made.v[k] = IF k \in Named(op)
                                   THEN formatOutput(given.v[k], OwnTarget(c)).val
                                   ELSE given.v[k]

\* C21's case: a block without totalDifficulty and gasUsed, under target Number.
C21_Witness ==
    \E c \in Answered \cap Returned :
        /\ calls[c].op = "getBlockByHash"
        /\ OwnTarget(c) = "Number"
        /\ Get(ResponseOf(c), "result") = PartialRecord
        /\ "totalDifficulty" \notin Keys(Get(calls[c].value, "result"))
        /\ Get(Get(calls[c].value, "result"), "number") = Num(2)
        /\ Get(Get(calls[c].value, "result"), "hash") = Hash

\* The canonical form of a hexadecimal string: 0x, then its digits in lowercase
\* from the first that is not a zero (one zero when all are).
FirstNonZero(h) ==
    LET nonZero == {i \in 3..Len(h.v) : h.v[i] # "0"}
    IN  IF nonZero = {} THEN Len(h.v) ELSE CHOOSE i \in nonZero : \A j \in nonZero : i <= j
canonicalize(h) ==
    Str(<<"0", "x">> \o [i \in 1..Len(h.v) - FirstNonZero(h) + 1 |->
                            LET d == h.v[FirstNonZero(h) + i - 1]
                                at == CHOOSE k \in 1..16 : d \in {LowerDigits[k], UpperDigits[k]}
                            IN  LowerDigits[at]])

\* C22: a valid hexadecimal string converted to DecimalString is a decimal string,
\* and that converted to HexString is the canonical form of the string: lowercase,
\* 0x-prefixed, leading zeros trimmed.
C22_HexRoundTripIsCanonical ==
    /\ conversion.stage \in {"decimal", "hex"} =>
          conversion.decimal.t = "str" /\ IsDecimalString(conversion.decimal.v)
    /\ conversion.stage = "hex" => conversion.hex = canonicalize(conversion.input)

\* C22's case: 0x0F9a went to 3994 and came back as 0xf9a.
C22_Witness ==
    /\ conversion.stage = "hex"
    /\ conversion.input = Str(<<"0", "x", "0", "F", "9", "a">>)
    /\ conversion.decimal = Str(<<"3", "9", "9", "4">>)
    /\ conversion.hex = Str(<<"0", "x", "f", "9", "a">>)

\* C23: the descriptor holds every key of callOptions.rpcOptions other than method
\* and params with the caller's value, the operation's own method name and params
\* whatever rpcOptions holds under those keys, and no other key; and
\* callOptions.providerCallOptions goes to the request manager as it is.
C23_TransportOptionsPassThrough ==
    \A c \in Transmitted :
        LET rpcOptions == calls[c].callOptions.rpcOptions
        IN  /\ DOMAIN DescriptorOf(c) = DOMAIN rpcOptions \cup {"method", "params"}
            /\ \A k \in DOMAIN rpcOptions \ {"method", "params"} :
                   DescriptorOf(c)[k] = rpcOptions[k]
            /\ DescriptorOf(c)["method"] = Name(OperationOf(c).method)
            /\ DescriptorOf(c)["params"]
                  = Arr(BuildParams(OperationOf(c), calls[c].args).params)
            /\ calls[c].sent[1].providerCallOptions = calls[c].callOptions.providerCallOptions

\* C23's case: a send-mode call whose rpcOptions hold id, jsonrpc and a method key.
C23_Witness ==
    \E c \in Transmitted :
        /\ calls[c].sent[1].via = "send"
        /\ "method" \in DOMAIN calls[c].callOptions.rpcOptions
        /\ calls[c].callOptions.rpcOptions["method"] = Name("eth_mining")
        /\ calls[c].op = "getGasPrice"
        /\ DescriptorOf(c)["method"] = Name("eth_gasPrice")
        /\ DescriptorOf(c)["id"] = Num(7)
        /\ DescriptorOf(c)["jsonrpc"] = Name("2.0")
        /\ calls[c].sent[1].providerCallOptions = Obj([timeout |-> Num(5)])

\* What an invocation has done so far, read in the order of its steps: its input
\* conversions came before its one transmission, the response before the
\* normalization, which is of that response, and the normalization before the return.
StepsInOrder(c) ==
    /\ calls[c].sent # <<>> => \A i \in 1..Len(calls[c].attempted) : ~Threw(calls[c].attempted[i])
    /\ calls[c].settlement.kind # "none" => Len(calls[c].sent) = 1
    /\ calls[c].pc = "awaiting" =>
          /\ Len(calls[c].sent) = 1
          /\ calls[c].settlement.kind = "none"
          /\ calls[c].normalized = <<>>
    /\ calls[c].normalized # <<>> =>
          /\ Len(calls[c].sent) = 1 /\ calls[c].sent[1].via = "send"
          /\ calls[c].settlement.kind = "resolved"
          /\ calls[c].normalized[1].value = Get(calls[c].settlement.value, "result")
    /\ (c \in Returned /\ calls[c].sent[1].via = "send" /\ OperationOf(c).normalize # "none") =>
          Len(calls[c].normalized) = 1
\* A step of an invocation that has started to normalize, or has thrown, transmits
\* nothing.
NothingSentLate(c) ==
    ((calls[c].normalized # <<>> \/ calls[c].pc = "threw") /\ calls'[c].pc # "idle") =>
        calls'[c].sent = calls[c].sent

\* C24: in send mode an invocation converts its inputs, transmits once, receives the
\* response, normalizes its result and returns, in that order: no normalization
\* before the response, and no transmission once normalization has started or an
\* error has been raised.
C24_StepsOccurInOrder ==
    /\ [](\A c \in Started : StepsInOrder(c))
    /\ [][\A c \in Callers : NothingSentLate(c)]_vars

\* C24's case: an uncle lookup converted both inputs, sent once, was answered and
\* returned the normalized record.
C24_Witness ==
    \E c \in Answered \cap Returned :
        /\ calls[c].op = "getUncleByBlockNumberAndIndex"
        /\ Len(calls[c].attempted) = 2
        /\ Len(calls[c].sent) = 1
        /\ Len(calls[c].normalized) = 1
        /\ Get(ResponseOf(c), "result") = FullRecord
        /\ Get(calls[c].value, "result") # FullRecord

\* The invocations called with the filter id a filter creation returned.
PassedBack == {c \in Started : calls[c].issued # Undefined}

\* C25: a filter id returned by newFilter, newBlockFilter or
\* newPendingTransactionFilter under any target and passed to getFilterChanges,
\* getFilterLogs or uninstallFilter is sent to the node as the id the node issued.
C25_FilterIdIsSentAsIssued ==
    \A c \in PassedBack :
        /\ c \in Transmitted
        /\ ParamsOf(c) = <<calls[c].issued>>

\* C25, amended: the filter id is sent as the canonical form of the id the node
\* issued (lowercase, leading zeros trimmed): the same number under every target,
\* and the same string when the node issued it in canonical form.
C25_FilterIdIsSentCanonical ==
    \A c \in PassedBack :
        /\ c \in Transmitted
        /\ ParamsOf(c) = <<canonicalize(calls[c].issued)>>
        /\ Magnitude(ParamsOf(c)[1]) = Magnitude(calls[c].issued)
        /\ calls[c].issued = canonicalize(calls[c].issued) => ParamsOf(c) = <<calls[c].issued>>

\* C25's case: the id 0x0A, returned as the number 10, went to getFilterLogs and was
\* sent as 0xa.
C25_Witness ==
    \E c \in PassedBack :
        /\ calls[c].op = "getFilterLogs"
        /\ calls[c].issued = Str(<<"0", "x", "0", "A">>)
        /\ calls[c].args = <<Num(10)>>
        /\ ParamsOf(c) = <<Str(<<"0", "x", "a">>)>>

\* The invocations in subscribe mode whose subscribe resolved.
Subscribed ==
    {c \in Transmitted : calls[c].sent[1].via = "subscribe" /\ calls[c].settlement.kind = "resolved"}

\* C26: in subscribe mode every operation returns exactly what subscribe resolved
\* with, and calls no normalizer, also when it normalizes in send mode.
C26_SubscribeModeNormalizesNothing ==
    \A c \in Subscribed :
        /\ c \in Returned
        /\ calls[c].value = calls[c].settlement.value
        /\ calls[c].normalized = <<>>

\* C26's case: getBlockByNumber in subscribe mode under target Number, resolved
\* with a record, which it returned with its hexadecimal fields as they came.
C26_Witness ==
    \E c \in Subscribed :
        /\ calls[c].op = "getBlockByNumber"
        /\ calls[c].callOptions.returnType = "Number"
        /\ calls[c].settlement.value = Success(FullRecord)
        /\ calls[c].value = Success(FullRecord)

\* C27: in send mode an operation that normalizes returns the response with every
\* key other than result as the request manager returned it and result replaced by
\* the normalized result; the response received is left as it was.
C27_OnlyResultIsReplaced ==
    \A c \in Answered \cap Returned :
        OperationOf(c).normalize # "none" =>
            /\ Keys(calls[c].value) = Keys(ResponseOf(c)) \cup {"result"}
            /\ \A k \in Keys(ResponseOf(c)) \ {"result"} :
                   calls[c].value.v[k] = ResponseOf(c).v[k]
            /\ calls[c].value.v["result"]
                  = Normalized(OperationOf(c), Get(ResponseOf(c), "result"), OwnTarget(c)).val
            /\ ResponseOf(c) \in SendResponses

\* C27's case: a receipt lookup under target Number whose result changed and whose
\* id and jsonrpc did not.
C27_Witness ==
    \E c \in Answered \cap Returned :
        /\ calls[c].op = "getTransactionReceipt"
        /\ OwnTarget(c) = "Number"
        /\ Get(ResponseOf(c), "result") = FullRecord
        /\ Get(calls[c].value, "result") # FullRecord
        /\ Get(calls[c].value, "id") = Num(1)
        /\ Get(calls[c].value, "jsonrpc") = Name("2.0")

\* The operations whose results are not numeric.
PassThroughOperations ==
    {"getClientVersion", "getSha3", "getNetworkListening", "getCoinbase", "getMining",
     "getAccounts", "getCode", "sign", "signTransaction", "sendTransaction",
     "sendRawTransaction", "call", "getCompilers", "compileSolidity", "compileLLL",
     "compileSerpent", "uninstallFilter", "getWork", "submitWork", "submitHashRate"}

\* C28: an operation whose result is not numeric returns the response of send
\* exactly as received and calls no normalizer, whatever callOptions.returnType and
\* the client's default representation are.
C28_NonNumericResultsPassThrough ==
    \A c \in Answered :
        calls[c].op \in PassThroughOperations =>
            /\ c \in Returned
            /\ calls[c].value = ResponseOf(c)
            /\ calls[c].normalized = <<>>

\* C28's case: getCode under target Number and a default other than HexString,
\* answered with a hexadecimal string, which it returned as it came.
C28_Witness ==
    \E c \in Answered :
        /\ calls[c].op = "getCode"
        /\ calls[c].callOptions.returnType = "Number"
        /\ defaultReturnType = "BigInt"
        /\ ResponseOf(c) = Success(Str(<<"0", "x", "5", "2", "0", "8">>))
        /\ calls[c].value = ResponseOf(c)

\* The operations of each result kind, and the fields decoded for the kind.
BlockLookups ==
    {"getBlockByHash", "getBlockByNumber", "getUncleByBlockHashAndIndex",
     "getUncleByBlockNumberAndIndex"}
TransactionLookups ==
    {"getTransactionByHash", "getTransactionByBlockHashAndIndex",
     "getTransactionByBlockNumberAndIndex"}
BlockFields ==
    {"number", "nonce", "difficulty", "totalDifficulty", "size", "gasLimit", "gasUsed",
     "timestamp"}
TransactionFields == {"blockNumber", "gas", "gasPrice", "nonce", "transactionIndex", "value", "v"}
\* The names of the field list an invocation handed to its normalizer.
FieldsDecoded(c) == {calls[c].normalized[1].fields[i] : i \in 1..Len(calls[c].normalized[1].fields)}

\* C29: whatever was called before, the field list handed to the normalizer is the
\* one of the result kind: the same for the four block and uncle lookups, for the
\* three transaction lookups, and for the three log queries.
C29_DecodeListsAreFixedPerKind ==
    \A c \in Answered :
        /\ calls[c].op \in BlockLookups \cup TransactionLookups \cup LogQueries =>
              Len(calls[c].normalized) = 1
        /\ calls[c].op \in BlockLookups => FieldsDecoded(c) = BlockFields
        /\ calls[c].op \in TransactionLookups => FieldsDecoded(c) = TransactionFields
        /\ calls[c].op \in LogQueries => FieldsDecoded(c) = LogFields

\* C29's case: an uncle lookup by hash handed its normalizer the block fields.
C29_Witness ==
    \E c \in Answered :
        /\ calls[c].op = "getUncleByBlockHashAndIndex"
        /\ Get(ResponseOf(c), "result") = FullRecord
        /\ calls[c].normalized[1].fn = "formatRpcResultArray"
        /\ "timestamp" \in FieldsDecoded(c)
        /\ FieldsDecoded(c) = BlockFields

\* The request manager has settled the invocation's request; the handler has not
\* resumed.
RequestSettled(c) == calls[c].pc = "awaiting" /\ calls[c].settlement.kind # "none"
Completed(c) == calls[c].pc \in {"returned", "threw"}

\* C30: once the request manager has resolved or rejected the request of an
\* invocation, the invocation completes, with a value or with an error.
C30_SettledInvocationsComplete ==
    \A c \in SequentialCallers : RequestSettled(c) ~> Completed(c)

\* C30's case: getHashRate returned after the request manager resolved its one
\* request.
C30_Witness ==
    \E c \in SequentialCallers :
        /\ calls[c].op = "getHashRate"
        /\ Len(calls[c].sent) = 1
        /\ calls[c].settlement.kind = "resolved"
        /\ calls[c].pc = "returned"
====
